---------------------------- MODULE Spec2Model ----------------------------
(***************************************************************************)
(* A model of include/bitfield.h: the bit-manipulation macros over         *)
(* caller-owned unsigned integers of 8, 16, 32 and 64 bits.                *)
(*                                                                         *)
(* A value of a C unsigned type is the set of the positions of its 1-bits  *)
(* (bit 0 is the least significant), so a 64-bit value keeps its full      *)
(* width.  Zero-extension to a wider type leaves that set as it is; the    *)
(* conversion to a narrower type (Trunc) drops the positions beyond it.    *)
(* Arithmetic the macros do on values (<<, >>, - 1, &, |, ^, ~) is done    *)
(* on these sets the way the machine does it on the bits.                  *)
(*                                                                         *)
(* The state is the caller's: the variable bf the macros are applied to,   *)
(* its width W, the arguments the caller passes, the locals of a macro     *)
(* whose loop is running, and the record of the last two expansions.       *)
(***************************************************************************)
EXTENDS Integers, FiniteSets, Sequences, TLC

VARIABLES
    W,          \* sizeof(bf) * 8: the declared width of the caller's bf
    bf,         \* the caller's bitfield
    i,          \* the caller's bit index
    start,      \* the caller's range start
    len,        \* the caller's range length
    val,        \* the caller's new field value, converted to bit64_t
    rval_cptr,  \* the caller's character string, without its NUL
    gnuc,       \* whether the build defines __GNUC__ or __clang__
    pc,         \* where the expansion of a macro with a loop stands
    _bits_ptr,  \* BITS: index into rval_cptr of the character pointed at
    _v,         \* ONES (fallback): the bits still to count
    _c,         \* ONES (fallback): the count so far
    last,       \* the last expansion: macro, bf before it, its value
    prev        \* the expansion before the last, likewise

vars == <<W, bf, i, start, len, val, rval_cptr, gnuc, pc, _bits_ptr, _v, _c,
          last, prev>>

---------------------------------------------------------------------------
(* The integer types and the C operators on them. *)

\* bit64_t is 64 bits wide.
WordBits == 64

\* The widths of bit8_t, bit16_t, bit32_t and bit64_t.
Widths == {8, 16, 32, 64}

\* The bit positions of a w-bit type.
BitsOf(w) == 0 .. (w - 1)

\* The conversion of a value to a w-bit unsigned type: the bits beyond the
\* type are lost.
Trunc(x, w) == x \cap BitsOf(w)

\* The type an operand of width w has after the integer promotions: int
\* (32 bits) for bit8_t and bit16_t, the type itself otherwise.
Promoted(w) == IF w < 32 THEN 32 ELSE w

\* What a shift by a count that is not less than the width of the operand
\* yields.  The C standard leaves it undefined; the builds in use either
\* reduce the count modulo the width (x86, AArch64) or shift every bit out
\* (ARM, constant folding).
UBOutcomes == {"wrap", "zero"}

\* x << n in a w-bit type.
Shl(x, n, w, u) ==
    IF n < w THEN {b + n : b \in x} \cap BitsOf(w)
    ELSE IF u = "wrap" THEN {b + (n % w) : b \in x} \cap BitsOf(w)
    ELSE {}

\* x >> n in a w-bit type.
Shr(x, n, w, u) ==
    IF n < w THEN {b - n : b \in {c \in x : c >= n}}
    ELSE IF u = "wrap" THEN {b - (n % w) : b \in {c \in x : c >= n % w}}
    ELSE {}

\* The lowest 1-bit of a value that is not 0.
LowestBit(x) == CHOOSE b \in x : \A c \in x : b <= c

\* x - 1 in a w-bit type: the borrow runs up to the lowest 1-bit, and
\* through the whole word when x is 0.
Dec(x, w) ==
    IF x = {} THEN BitsOf(w)
    ELSE (x \ {LowestBit(x)}) \cup BitsOf(LowestBit(x))

\* x & y, x | y, x ^ y and ~x on bit64_t.
And(x, y) == x \cap y
Or(x, y) == x \cup y
Xor(x, y) == (x \ y) \cup (y \ x)
Not64(x) == BitsOf(WordBits) \ x

---------------------------------------------------------------------------
(* The macros, as the values their expansions compute.  A macro that       *)
(* assigns to bf is given as the value assigned, converted to bf's type.   *)

\* A faulty BIT, to compare with: the index is reduced modulo the width of int.
BIT_Mod32(k) == Shl({0}, k % 32, WordBits, "wrap")

\* #define BIT(i) ((bit64_t)1 << ((bit64_t)(i) % 64))
\* The count is below 64, so no outcome of an over-wide shift is involved.
BIT(k) == Shl({0}, k % 64, WordBits, "wrap")

\* A faulty SETBIT, to compare with: the mask is converted to bf's type modulo the
\* width, so that an index beyond the type lands inside it.
SETBIT_Folded(b, w, k) == Trunc(Or(b, {(k % 64) % w}), w)

\* #define SETBIT(bf, i)  ((bf) |= (BIT(i)))
SETBIT(b, w, k) == Trunc(Or(b, BIT(k)), w)

\* A faulty NULLBIT, to compare with: the mask is not inverted.
NULLBIT_NoInvert(b, w, k) == Trunc(And(b, BIT(k)), w)

\* #define NULLBIT(bf, i) ((bf) &= ~(BIT(i)))
NULLBIT(b, w, k) == Trunc(And(b, Not64(BIT(k))), w)

\* #define ISSET(bf, i)   (((bf) & (BIT(i))) != 0)
ISSET(b, k) == And(b, BIT(k)) # {}

\* #define ISNULL(bf, i)  (((bf) & (BIT(i))) == 0)
ISNULL(b, k) == And(b, BIT(k)) = {}

\* A faulty TOGGLEBIT, to compare with: the bit is ORed in instead of XORed.
TOGGLEBIT_Or(b, w, k) == Trunc(Or(b, BIT(k)), w)

\* #define TOGGLEBIT(bf, i) ((bf) ^= (BIT(i)))
TOGGLEBIT(b, w, k) == Trunc(Xor(b, BIT(k)), w)

\* #define CLEARBIT(bf, i) NULLBIT(bf, i)
CLEARBIT(b, w, k) == NULLBIT(b, w, k)

\* #define GETBIT(bf, i) (ISSET(bf, i) ? 1 : 0)
GETBIT(b, k) == IF ISSET(b, k) THEN 1 ELSE 0

\* A faulty BITMASK, to compare with: the mask is one bit too wide.
BITMASK_OneMore(n, u) == Dec(Shl({0}, n + 1, WordBits, u), WordBits)

\* #define BITMASK(n) (((bit64_t)1 << (n)) - 1)
\* u is the outcome of the shift when n >= 64.
BITMASK(n, u) == Dec(Shl({0}, n, WordBits, u), WordBits)

\* #define GETBITS(bf, start, len) (((bf) >> (start)) & BITMASK(len))
\* bf is shifted in the type it is promoted to; the value is a bit64_t.
GETBITS(b, w, s, l, u) == And(Shr(b, s, Promoted(w), u), BITMASK(l, u))

\* A faulty SETBITS, to compare with: the field is not cleared before the OR.
SETBITS_NoClear(b, w, s, l, v, u) ==
    Trunc(Or(b, Shl(And(v, BITMASK(l, u)), s, WordBits, u)), w)

\* #define SETBITS(bf, start, len, val) do { (bf) = ((bf) &
\*     ~(BITMASK(len) << (start))) | (((val) & BITMASK(len)) << (start)); }
SETBITS(b, w, s, l, v, u) ==
    Trunc(Or(And(b, Not64(Shl(BITMASK(l, u), s, WordBits, u))),
             Shl(And(v, BITMASK(l, u)), s, WordBits, u)), w)

\* A faulty CLEARBITS, to compare with: the field is flipped instead of cleared.
CLEARBITS_Xor(b, w, s, l, u) ==
    Trunc(Xor(b, Shl(BITMASK(l, u), s, WordBits, u)), w)

\* #define CLEARBITS(bf, start, len) ((bf) &= ~(BITMASK(len) << (start)))
CLEARBITS(b, w, s, l, u) ==
    Trunc(And(b, Not64(Shl(BITMASK(l, u), s, WordBits, u))), w)

\* A faulty BITS_Step, to compare with: every character other than '0' counts as a 1.
BITS_StepNotZero(b, w, c) ==
    Trunc(Or(Trunc(Shl(b, 1, Promoted(w), "wrap"), w),
             IF c # "0" THEN {0} ELSE {}), w)

\* The body of the loop of BITS, for the character c pointed at:
\*     (bf) <<= 1; (bf) |= (*_bits_ptr == '1');
\* The shift is done in the promoted type and converted back to bf's.
BITS_Step(b, w, c) ==
    Trunc(Or(Trunc(Shl(b, 1, Promoted(w), "wrap"), w),
             IF c = "1" THEN {0} ELSE {}), w)

\* __builtin_popcount and __builtin_popcountll: the number of 1-bits among
\* the low n bits of x, counted bit by bit.
RECURSIVE Popcount(_, _)
Popcount(x, n) ==
    IF n = 0 THEN 0
    ELSE (IF (n - 1) \in x THEN 1 ELSE 0) + Popcount(x, n - 1)

\* sizeof of a type of width w.
SizeOf(w) == w \div 8

\* A faulty ONES_builtin, to compare with: a 64-bit bf goes to __builtin_popcount too.
ONES_builtin_NoLL(b, w) ==
    IF SizeOf(w) = 1 THEN Popcount(Trunc(b, 8), 32)
    ELSE IF SizeOf(w) = 2 THEN Popcount(Trunc(b, 16), 32)
    ELSE IF SizeOf(w) = 4 THEN Popcount(Trunc(b, 32), 32)
    ELSE IF SizeOf(w) = 8 THEN Popcount(Trunc(b, 32), 32)
    ELSE 0

\* ONES where __GNUC__ or __clang__ is defined: the operand is cast to the
\* type of its size and handed to the intrinsic of unsigned int (32 bits) or
\* of unsigned long long (64 bits).
ONES_builtin(b, w) ==
    IF SizeOf(w) = 1 THEN Popcount(Trunc(b, 8), 32)
    ELSE IF SizeOf(w) = 2 THEN Popcount(Trunc(b, 16), 32)
    ELSE IF SizeOf(w) = 4 THEN Popcount(Trunc(b, 32), 32)
    ELSE IF SizeOf(w) = 8 THEN Popcount(Trunc(b, 64), 64)
    ELSE 0

\* A faulty ONES_Step, to compare with: the loop shifts the value down, one position
\* an iteration.
ONES_StepShift(v, w) == Trunc(Shr(v, 1, Promoted(w), "wrap"), w)

\* The body of the loop of the fallback ONES, on _v: _v &= _v - 1;
\* The subtraction is done in the promoted type.
ONES_Step(v, w) == Trunc(And(v, Dec(v, Promoted(w))), w)

\* The fallback ONES as a whole: while (_v) { _v &= _v - 1; _c++; } _c
RECURSIVE ONES_fallback(_, _, _)
ONES_fallback(v, c, w) ==
    IF v # {} THEN ONES_fallback(ONES_Step(v, w), c + 1, w) ELSE c

\* ONES(bf) in the build at hand.
ONES(b, w, g) == IF g THEN ONES_builtin(b, w) ELSE ONES_fallback(b, 0, w)

\* #define ZEROS(bf) ((sizeof(bf) * 8) - ONES(bf))
ZEROS(b, w, g) == SizeOf(w) * 8 - ONES(b, w, g)

---------------------------------------------------------------------------
(* The caller's values. *)

\* How many times the caller's index runs past bit 63.
MaxWraps == 2

\* The bit positions the caller's index is taken from, in each round.
Positions == {0, 1, 7, 8, 15, 16, 31, 32, 62, 63}

Indices == {k * 64 + p : k \in 0 .. MaxWraps, p \in Positions}

\* The values the caller's bf starts with: 0, all ones, every other bit,
\* 0xD6 in every byte and in the low byte, the lowest and the highest bit.
Patterns(w) ==
    { {}, BitsOf(w),
      {b \in BitsOf(w) : b % 2 = 0}, {b \in BitsOf(w) : b % 2 = 1},
      {b \in BitsOf(w) : (b % 8) \in {1, 2, 4, 6, 7}}, {1, 2, 4, 6, 7},
      {0}, {w - 1} }

\* The range starts and lengths the caller passes: around the ends of each
\* width, and up to the width of bit64_t.
Starts == {0, 1, 2, 5, 8, 16, 31, 32, 63, 64}
Lens == {0, 1, 3, 4, 8, 16, 32, 63, 64}

\* The field values the caller passes: 0, 0b101, all ones, and a value with
\* bits in every byte range.
Vals == { {}, {0, 2}, BitsOf(WordBits), {0, 1, 3, 4, 9, 17, 33, 63} }

\* The characters of the caller's strings: the two digits, and one that is
\* neither.
Chars == {"0", "1", "x"}

\* The longest of the strings that are taken with every content.
MaxStrLen == 4

\* By how many characters the long strings exceed a width.
MaxOver == 2

\* The long strings, of a length around a width: all '1's, alternating
\* digits, a '1' and then '0's, and '1's with every third character an 'x'.
LongStr(n, p) ==
    [j \in 1 .. n |->
        CASE p = 1 -> "1"
          [] p = 2 -> IF j % 2 = 1 THEN "1" ELSE "0"
          [] p = 3 -> IF j = 1 THEN "1" ELSE "0"
          [] OTHER -> IF j % 3 = 0 THEN "x" ELSE "1"]

Strings ==
    UNION {[1 .. n -> Chars] : n \in 0 .. MaxStrLen}
      \cup {<<"0", "0", "0", "0", "1", "1", "1", "1">>}
      \cup {LongStr(w + k, p) : w \in Widths, k \in 0 .. MaxOver, p \in 1 .. 4}

\* The positions from which the bits of the values counted are taken, in a
\* w-bit type: every set of them and every complement of one is counted.
CountedPositions(w) == {0, 1, 7, w \div 2, w - 2, w - 1}

Counted(w) ==
    IF w = 8 THEN SUBSET BitsOf(8)
    ELSE SUBSET CountedPositions(w)
           \cup {BitsOf(w) \ x : x \in SUBSET CountedPositions(w)}
           \cup Patterns(w)

\* The record of an expansion.
Did(op, pre, res) == [op |-> op, pre |-> pre, res |-> res]
NoOp == Did("none", {}, {})

---------------------------------------------------------------------------
(* The single-bit macros applied to the caller's bf, in any order. *)

InitBit ==
    /\ W \in Widths
    /\ bf \in Patterns(W)
    /\ i \in Indices
    /\ start = 0 /\ len = 0 /\ val = {} /\ rval_cptr = <<>>
    /\ gnuc = TRUE /\ pc = "idle" /\ _bits_ptr = 1 /\ _v = {} /\ _c = 0
    /\ last = NoOp /\ prev = NoOp

\* An expansion that assigns `new' to bf.
Assign(op, new) ==
    /\ bf' = new
    /\ last' = Did(op, bf, new)
    /\ prev' = last
    /\ UNCHANGED <<W, i, start, len, val, rval_cptr, gnuc, pc, _bits_ptr, _v, _c>>

\* An expansion that only computes the value `res'.
Compute(op, res) ==
    /\ last' = Did(op, bf, res)
    /\ prev' = last
    /\ UNCHANGED <<W, bf, i, start, len, val, rval_cptr, gnuc, pc, _bits_ptr, _v, _c>>

Bit == Compute("BIT", BIT(i))
SetBit == Assign("SETBIT", SETBIT(bf, W, i))
NullBit == Assign("NULLBIT", NULLBIT(bf, W, i))
ClearBit == Assign("CLEARBIT", CLEARBIT(bf, W, i))
ToggleBit == Assign("TOGGLEBIT", TOGGLEBIT(bf, W, i))
IsSet == Compute("ISSET", ISSET(bf, i))
IsNull == Compute("ISNULL", ISNULL(bf, i))
GetBit == Compute("GETBIT", GETBIT(bf, i))

NextBit ==
    \/ Bit
    \/ SetBit
    \/ NullBit
    \/ ClearBit
    \/ ToggleBit
    \/ IsSet
    \/ IsNull
    \/ GetBit

SpecBit == InitBit /\ [][NextBit]_vars

---------------------------------------------------------------------------
(* The claims about the single-bit macros, under SpecBit. *)

\* The number a value stands for; for values below 2^31 only.
RECURSIVE Value(_)
Value(x) ==
    IF x = {} THEN 0
    ELSE LET b == CHOOSE c \in x : TRUE IN 2 ^ b + Value(x \ {b})

SingleBitAssigns == {"SETBIT", "NULLBIT", "CLEARBIT", "TOGGLEBIT"}

\* C1 as stated: for every width and every index i >= 0, after SetBit(bf, i)
\* IsSet(bf, i) is true, and after ClearBit(bf, i) (alias NullBit)
\* IsSet(bf, i) is false.
C1_AsStated ==
    /\ last.op = "SETBIT" => ISSET(bf, i)
    /\ last.op \in {"CLEARBIT", "NULLBIT"} => ~ISSET(bf, i)

\* C1 as amended: after SetBit(bf, i) IsSet(bf, i) is true when bit i mod 64
\* lies inside bf (i mod 64 < W); after ClearBit(bf, i) (alias NullBit)
\* IsSet(bf, i) is false for every index.
C1_SetThenIsSet ==
    /\ (last.op = "SETBIT" /\ i % 64 < W) => ISSET(bf, i)
    /\ last.op \in {"CLEARBIT", "NULLBIT"} => ~ISSET(bf, i)

\* A bit that ClearBit had cleared is set by SetBit, with an index past 63.
C1_Witness ==
    /\ prev.op = "CLEARBIT" /\ last.op = "SETBIT"
    /\ i >= 64 /\ i % 64 < W
    /\ ISSET(prev.pre, i) /\ ~ISSET(last.pre, i) /\ ISSET(bf, i)

\* C6: applying ToggleBit(bf, i) twice in a row leaves bf equal to its
\* original value, for every width and every index.
C6_ToggleTwice ==
    (last.op = "TOGGLEBIT" /\ prev.op = "TOGGLEBIT") => bf = prev.pre

\* Two toggles in a row, the first of which changed bf.
C6_Witness ==
    /\ last.op = "TOGGLEBIT" /\ prev.op = "TOGGLEBIT"
    /\ last.pre # prev.pre /\ bf = prev.pre /\ i >= 64

\* C8: for every index i >= 0, Bit(i) is the 64-bit value with exactly one
\* bit set, at position i mod 64: Bit(i) = 2^(i mod 64) = Bit(i mod 64).
C8_BitWraps ==
    last.op = "BIT" =>
        /\ last.res = {i % 64}
        /\ Cardinality(last.res) = 1
        /\ last.res \subseteq BitsOf(WordBits)
        /\ last.res = BIT(i % 64)
        /\ i % 64 < 31 => Value(last.res) = 2 ^ (i % 64)

\* Bit(i) computed for an index past 63.
C8_Witness ==
    last.op = "BIT" /\ i >= 64 /\ i % 64 = 7 /\ Value(last.res) = 128

\* C9: for W in {8, 16, 32} and W <= (i mod 64) <= 63, SetBit, ClearBit
\* and ToggleBit leave bf unchanged, IsSet(bf, i) is false, IsNull(bf, i) is
\* true and GetBit(bf, i) is 0.
C9_BeyondWidth ==
    (W \in {8, 16, 32} /\ W <= i % 64 /\ i % 64 <= 63) =>
        /\ last.op \in SingleBitAssigns => bf = last.pre
        /\ ~ISSET(bf, i) /\ ISNULL(bf, i) /\ GETBIT(bf, i) = 0
        /\ last.op = "ISSET" => last.res = FALSE
        /\ last.op = "ISNULL" => last.res = TRUE
        /\ last.op = "GETBIT" => last.res = 0

\* SetBit(bf, 8) on an 8-bit bf, and IsSet(bf, 8) after it.
C9_Witness ==
    /\ W = 8 /\ i = 8 /\ bf = {0}
    /\ prev.op = "SETBIT" /\ last.op = "ISSET" /\ last.res = FALSE

---------------------------------------------------------------------------
(* The range macros applied to the caller's bf, in any order.  Each        *)
(* expansion sees one outcome of its over-wide shifts; two expansions may  *)
(* see different ones.                                                     *)

InitRange ==
    /\ W \in Widths
    /\ bf \in Patterns(W)
    /\ start \in Starts /\ len \in Lens /\ val \in Vals
    /\ i = 0 /\ rval_cptr = <<>>
    /\ gnuc = TRUE /\ pc = "idle" /\ _bits_ptr = 1 /\ _v = {} /\ _c = 0
    /\ last = NoOp /\ prev = NoOp

BitMask == \E u \in UBOutcomes : Compute("BITMASK", BITMASK(len, u))
GetBits == \E u \in UBOutcomes : Compute("GETBITS", GETBITS(bf, W, start, len, u))
SetBits == \E u \in UBOutcomes : Assign("SETBITS", SETBITS(bf, W, start, len, val, u))
ClearBits == \E u \in UBOutcomes : Assign("CLEARBITS", CLEARBITS(bf, W, start, len, u))

NextRange ==
    \/ BitMask
    \/ GetBits
    \/ SetBits
    \/ ClearBits

SpecRange == InitRange /\ [][NextRange]_vars

---------------------------------------------------------------------------
(* The claims about the range macros, under SpecRange. *)

\* The bit positions of the field [start, start + len).
Field == {b \in BitsOf(WordBits) : start <= b /\ b < start + len}

\* C2: for 0 <= len <= 63 and start + len <= W and every val, after
\* SetBits(bf, start, len, val), preceded by ClearBits(bf, start, len) or
\* not, GetBits(bf, start, len) equals val mod 2^len, and every bit of bf
\* outside [start, start + len) has the value it had before the call.
C2_SetBitsField ==
    (last.op = "SETBITS" /\ len <= 63 /\ start + len <= W) =>
        /\ \A u \in UBOutcomes :
              /\ GETBITS(bf, W, start, len, u) = {b \in val : b < len}
              /\ len <= 30 =>
                    Value(GETBITS(bf, W, start, len, u))
                      = Value({b \in val : b < 30}) % (2 ^ len)
        /\ bf \ Field = last.pre \ Field
        /\ bf \subseteq BitsOf(W)

\* SetBits after a ClearBits that changed bf, with a val that does not fit
\* in len bits and changes the field.
C2_Witness ==
    /\ prev.op = "CLEARBITS" /\ last.op = "SETBITS"
    /\ 1 <= len /\ len <= 63 /\ start + len <= W /\ start > 0
    /\ ~(val \subseteq BitsOf(len))
    /\ prev.pre # last.pre /\ last.pre # bf
    /\ last.pre \ Field # {}

\* What C3 says GetBits yields: bit j of the value is bit start + j of bf,
\* for j < len (floor(bf / 2^start) mod 2^len), the value as a number for the
\* widths whose values are below 2^31, no bit at or above W - start, and
\* GetBits(0b11010110, 1, 4) = 0b1011.
GetBitsExtracts ==
    /\ last.res = {j \in BitsOf(WordBits) : j < len /\ (start + j) \in last.pre}
    /\ \A j \in last.res : j < W - start
    /\ W <= 16 =>
          Value(last.res) =
             IF len <= 30 THEN (Value(last.pre) \div (2 ^ start)) % (2 ^ len)
             ELSE Value(last.pre) \div (2 ^ start)
    /\ (W = 8 /\ last.pre = {1, 2, 4, 6, 7} /\ start = 1 /\ len = 4) =>
          Value(last.res) = 11

\* C3 as stated: for start < W and len <= 64, GetBits(bf, start, len) is
\* well-defined and equals floor(bf / 2^start) mod 2^len, with the bits at
\* positions >= W - start zero; GetBits(0b11010110, 1, 4) = 0b1011.
C3_AsStated ==
    (last.op = "GETBITS" /\ start < W /\ len <= 64) => GetBitsExtracts

\* C3 as amended: for start < W and len <= 63, GetBits(bf, start, len) is
\* well-defined and equals floor(bf / 2^start) mod 2^len, with the bits at
\* positions >= W - start zero; GetBits(0b11010110, 1, 4) = 0b1011.
C3_GetBitsExtracts ==
    (last.op = "GETBITS" /\ start < W /\ len <= 63) => GetBitsExtracts

\* GetBits of a field that runs past the end of bf and holds 1-bits.
C3_Witness ==
    /\ last.op = "GETBITS" /\ start < W /\ len <= 63
    /\ start + len > W /\ start > 0 /\ last.res # {}
    /\ last.res # last.pre

---------------------------------------------------------------------------
(* SetBit, ClearBit, ClearBits and SetBits, each applied to the caller's   *)
(* bf any number of times in a row, with the caller's arguments fixed.     *)

InitTwice == InitBit \/ InitRange

NextTwice ==
    \/ SetBit
    \/ ClearBit
    \/ ClearBits
    \/ SetBits

SpecTwice == InitTwice /\ [][NextTwice]_vars

\* The same macro was expanded twice in a row.
Twice(op) == prev.op = op /\ last.op = op

\* C7 as stated: invoking SetBit(i), ClearBit(i), ClearBits(start, len) with
\* 0 <= len <= 63, or SetBits(start, len, val) twice in a row with the same
\* arguments leaves bf as invoking it once does.
C7_AsStated ==
    /\ Twice("SETBIT") => bf = last.pre
    /\ Twice("CLEARBIT") => bf = last.pre
    /\ (Twice("CLEARBITS") /\ len <= 63) => bf = last.pre
    /\ Twice("SETBITS") => bf = last.pre

\* C7 as amended: invoking SetBit(i), ClearBit(i), ClearBits(start, len) or
\* SetBits(start, len, val), the last two with start <= 63 and len <= 63 (no
\* shift count reaches the width of bit64_t), twice in a row with the same
\* arguments leaves bf as invoking it once does.
C7_Idempotent ==
    /\ Twice("SETBIT") => bf = last.pre
    /\ Twice("CLEARBIT") => bf = last.pre
    /\ (Twice("CLEARBITS") /\ len <= 63 /\ start <= 63) => bf = last.pre
    /\ (Twice("SETBITS") /\ len <= 63 /\ start <= 63) => bf = last.pre

\* SetBits twice in a row, the first of which changed bf.
C7_Witness ==
    /\ Twice("SETBITS") /\ 1 <= len /\ len <= 63 /\ start <= 63
    /\ prev.pre # last.pre /\ bf = last.pre

---------------------------------------------------------------------------
(* BITS(bf, rval_cptr), one iteration of its loop a step. *)

InitBits ==
    /\ W \in Widths
    /\ bf \in {{}, BitsOf(W), {1, 2, 4, 6, 7}}
    /\ rval_cptr \in Strings
    /\ i = 0 /\ start = 0 /\ len = 0 /\ val = {}
    /\ gnuc = TRUE /\ pc = "idle" /\ _bits_ptr = 1 /\ _v = {} /\ _c = 0
    /\ last = NoOp /\ prev = NoOp

\* (bf) = 0; const char* _bits_ptr = (rval_cptr);
BitsEnter ==
    /\ pc = "idle"
    /\ bf' = {}
    /\ _bits_ptr' = 1
    /\ pc' = "bits"
    /\ last' = Did("BITS", bf, {})
    /\ prev' = last
    /\ UNCHANGED <<W, i, start, len, val, rval_cptr, gnuc, _v, _c>>

\* while (*_bits_ptr) { (bf) <<= 1; (bf) |= (*_bits_ptr == '1'); _bits_ptr++; }
BitsIter ==
    /\ pc = "bits"
    /\ _bits_ptr <= Len(rval_cptr)
    /\ bf' = BITS_Step(bf, W, rval_cptr[_bits_ptr])
    /\ _bits_ptr' = _bits_ptr + 1
    /\ UNCHANGED <<W, i, start, len, val, rval_cptr, gnuc, pc, _v, _c, last, prev>>

\* *_bits_ptr is the NUL: the loop is left.
BitsExit ==
    /\ pc = "bits"
    /\ _bits_ptr > Len(rval_cptr)
    /\ pc' = "done"
    /\ last' = [last EXCEPT !.res = bf]
    /\ UNCHANGED <<W, bf, i, start, len, val, rval_cptr, gnuc, _bits_ptr, _v, _c, prev>>

NextBits ==
    \/ BitsEnter
    \/ BitsIter
    \/ BitsExit

SpecBits == InitBits /\ [][NextBits]_vars

\* The number the string s of digits stands for, most significant first,
\* a character other than '1' counting as 0; for strings below 31 characters.
RECURSIVE BinValue(_)
BinValue(s) ==
    IF s = <<>> THEN 0
    ELSE 2 * BinValue(SubSeq(s, 1, Len(s) - 1))
           + (IF s[Len(s)] = "1" THEN 1 ELSE 0)

\* C4: ParseBits(s), for a string s of n characters, sets bf to (the sum
\* over k in 0..n-1 of b_k * 2^(n-1-k)) mod 2^W, with b_k = 1 iff the k-th
\* character from the left is '1': bit j of bf is the character j places
\* from the right end, for j below W and below n.  The empty string yields
\* 0, "1011" 11, "00001111" 15, and the previous bf is discarded.
C4_ParseBits ==
    pc = "done" =>
        LET n == Len(rval_cptr) IN
        /\ last.op = "BITS" /\ last.res = bf
        /\ bf = {j \in BitsOf(W) : j < n /\ rval_cptr[n - j] = "1"}
        /\ n <= 30 =>
              Value(bf) = IF W < 32 THEN BinValue(rval_cptr) % (2 ^ W)
                          ELSE BinValue(rval_cptr)
        /\ rval_cptr = <<>> => bf = {}
        /\ rval_cptr = <<"1", "0", "1", "1">> => Value(bf) = 11
        /\ rval_cptr = <<"0", "0", "0", "0", "1", "1", "1", "1">> => Value(bf) = 15

\* A string longer than bf is wide, with a character that is no digit,
\* parsed into a bf that held all ones: the leading characters are lost.
C4_Witness ==
    /\ pc = "done" /\ last.pre = BitsOf(W) /\ W = 16
    /\ Len(rval_cptr) = 18 /\ rval_cptr[1] = "1" /\ rval_cptr[3] = "x"
    /\ bf # BitsOf(W) /\ bf # {}

---------------------------------------------------------------------------
(* ONES(bf) and ZEROS(bf) in the two builds: the intrinsic where __GNUC__  *)
(* or __clang__ is defined, the counting loop elsewhere, one iteration of  *)
(* the loop a step.                                                        *)

InitOnes ==
    /\ W \in Widths
    /\ bf \in Counted(W)
    /\ gnuc \in BOOLEAN
    /\ i = 0 /\ start = 0 /\ len = 0 /\ val = {} /\ rval_cptr = <<>>
    /\ pc = "idle" /\ _bits_ptr = 1 /\ _v = {} /\ _c = 0
    /\ last = NoOp /\ prev = NoOp

\* ONES(bf), lines 93-97.
OnesBuiltin ==
    /\ gnuc
    /\ pc = "idle"
    /\ Compute("ONES", ONES_builtin(bf, W))

\* ONES(bf), lines 100-105: __typeof__(bf) _v = (bf); int _c = 0;
OnesEnter ==
    /\ ~gnuc
    /\ pc = "idle"
    /\ _v' = Trunc(bf, W)
    /\ _c' = 0
    /\ pc' = "ones"
    /\ UNCHANGED <<W, bf, i, start, len, val, rval_cptr, gnuc, _bits_ptr, last, prev>>

\* while (_v) { _v &= _v - 1; _c++; }
OnesIter ==
    /\ pc = "ones"
    /\ _v # {}
    /\ _v' = ONES_Step(_v, W)
    /\ _c' = _c + 1
    /\ UNCHANGED <<W, bf, i, start, len, val, rval_cptr, gnuc, pc, _bits_ptr, last, prev>>

\* _v is 0: the loop is left, and _c is the value of the expression.
OnesExit ==
    /\ pc = "ones"
    /\ _v = {}
    /\ pc' = "idle"
    /\ last' = Did("ONES", bf, _c)
    /\ prev' = last
    /\ UNCHANGED <<W, bf, i, start, len, val, rval_cptr, gnuc, _bits_ptr, _v, _c>>

Zeros ==
    /\ pc = "idle"
    /\ Compute("ZEROS", ZEROS(bf, W, gnuc))

NextOnes ==
    \/ OnesBuiltin
    \/ OnesEnter
    \/ OnesIter
    \/ OnesExit
    \/ Zeros

SpecOnes == InitOnes /\ [][NextOnes]_vars

\* The loop is sequential code: once entered, its next step is taken.
FairSpecOnes == SpecOnes /\ WF_vars(OnesIter \/ OnesExit)

\* C5: Ones(bf) is the number of 1-bits among the W bits of bf, it lies in
\* 0..W, Ones(bf) + Zeros(bf) = W, Ones(0) = 0 and Ones(2^W - 1) = W.
C5_OnesZeros ==
    /\ last.op = "ONES" =>
          /\ last.res = Cardinality(bf)
          /\ 0 <= last.res /\ last.res <= W
          /\ bf = {} => last.res = 0
          /\ bf = BitsOf(W) => last.res = W
    /\ last.op = "ZEROS" =>
          /\ last.res = W - Cardinality(bf)
          /\ ONES(bf, W, gnuc) + last.res = W
    /\ (last.op = "ZEROS" /\ prev.op = "ONES") => prev.res + last.res = W

\* Ones and then Zeros of a 64-bit bf with bits on both sides of bit 32.
C5_Witness ==
    /\ W = 64 /\ prev.op = "ONES" /\ last.op = "ZEROS"
    /\ 63 \in bf /\ 0 \in bf /\ 32 \notin bf
    /\ prev.res = 5 /\ last.res = 59

\* C10: the fallback loop of Ones terminates, each iteration clears the
\* lowest 1-bit of _v and no other, the iterations are as many as bf has
\* 1-bits, and the count returned is that of the intrinsic for the same bf.
C10_FallbackLoop ==
    /\ [][(pc = "ones" /\ pc' = "ones") =>
            /\ _v # {}
            /\ _v' = _v \ {LowestBit(_v)}
            /\ _c' = _c + 1]_vars
    /\ [](pc = "ones" => _c + Cardinality(_v) = Cardinality(bf))
    /\ (pc = "ones") ~> (pc = "idle")
    /\ []((last.op = "ONES" /\ ~gnuc) =>
            /\ last.res = Cardinality(bf)
            /\ last.res = ONES_builtin(bf, W))

\* The fallback loop has counted a 64-bit bf of more than 32 1-bits.
C10_Witness ==
    /\ ~gnuc /\ W = 64 /\ last.op = "ONES" /\ pc = "idle"
    /\ _c = last.res /\ _c > 32 /\ _c < 64 /\ _v = {}

===========================================================================
